---- MODULE Spec2Model ----
(***************************************************************************)
(* Employee Management System (React + Supabase).                          *)
(*                                                                         *)
(* The model has four parts:                                               *)
(*   - the remote store (tables tasks, employees, profiles) and the        *)
(*     requests in flight to it; every remote call is a request that is    *)
(*     first "sent", then executed by the server (which reads or writes    *)
(*     the tables and fixes the reply), then handled by the continuation   *)
(*     of the code that awaited it;                                        *)
(*   - the Task Access Layer (tasksService): the six exported functions;   *)
(*   - App: the session / role resolver;                                   *)
(*   - ManagerDashboard and EmployeeDashboard.                             *)
(*                                                                         *)
(* JavaScript null / undefined is Null (the empty tuple), a present value  *)
(* v is Some(v).                                                           *)
(***************************************************************************)
EXTENDS Bags, FiniteSets, Integers, Sequences, TLC

VARIABLES
  scope,            \* the component a run drives: "tasks" | "app" | "managerTasks" | "managerEmployees" | "employee"
  \* ---- remote side
  dbTasks,          \* table tasks: a set of rows
  dbEmployees,      \* table employees: a set of rows
  nextId,           \* next primary key the store hands out
  now,              \* wall clock (server now() and the client's new Date())
  net,              \* bag of requests in flight
  last, ret,        \* the Task Access Layer call made last by a direct caller, and what it returned
  deleted,          \* ids of the rows that deleteTask calls of a direct caller have removed
  \* ---- App
  session, profile, loading, error, subscribed,
  mounted,          \* the dashboard of the run has run its mount effect
  \* ---- ManagerDashboard
  employees, mLoading, mError, editingEmployee,
  tasks, tasksLoading, tasksError, editingTask,
  confirmDelete,    \* the answer to the last 'Delete this task?' prompt (Null before the first)
  \* ---- EmployeeDashboard
  userEmail, employee, eLoading, eError,
  eTasks, eTasksLoading, eTasksError

remoteVars == <<dbTasks, dbEmployees, nextId, now, net>>
svcVars    == <<last, ret, deleted>>
appVars    == <<session, profile, loading, error, subscribed>>
mgrVars    == <<employees, mLoading, mError, editingEmployee,
                tasks, tasksLoading, tasksError, editingTask, confirmDelete>>
empVars    == <<userEmail, employee, eLoading, eError,
                eTasks, eTasksLoading, eTasksError>>
vars       == <<scope, mounted, remoteVars, svcVars, appVars, mgrVars, empVars>>

----------------------------------------------------------------------------
(* Bounds of the model *)

MaxRows     == 2    \* rows the store ever holds per table (primary keys 1..MaxRows)
MaxClock    == 2    \* the clock runs 1..MaxClock
MaxInFlight == 2    \* requests in flight at a time

----------------------------------------------------------------------------
(* Values *)

Null    == <<>>
Some(v) == <<v>>

\* JavaScript truthiness of a nullable string / number: null, '' and 0 are falsy.
TruthyStr(o) == o # Null /\ o[1] # ""
TruthyId(o)  == o # Null /\ o[1] # 0

Emails   == {"a@x.com", "b@x.com"}
Statuses == {"todo", "in_progress", "done"}
Titles   == {"T1", "T2"}
DueDates == {"2026-01-01"}

\* A task as the callers of the Task Access Layer pass it (without its id).
TaskValue(title, status, due, email) ==
  [title |-> title, description |-> "", status |-> status, due_date |-> due,
   employee_email |-> email]

\* The task values the model submits: every status for every assignee, and
\* every shape of due_date (absent, empty, a date).
TaskValues ==
  {TaskValue("T1", s, Null, e) : s \in Statuses, e \in Emails}
    \cup {TaskValue("T1", "todo", Some(""), "a@x.com")}
    \cup {TaskValue("T2", "todo", Some(d), "a@x.com") : d \in DueDates}

WithId(v, id) ==
  [id |-> id, title |-> v.title, description |-> v.description, status |-> v.status,
   due_date |-> v.due_date, employee_email |-> v.employee_email]

----------------------------------------------------------------------------
(* Requests *)

Req(site, from, arg) ==
  [site |-> site, from |-> from, arg |-> arg, phase |-> "sent",
   data |-> <<>>, msg |-> ""]

NoArg == [none |-> TRUE]

InFlight     == BagCardinality(net)
Send(r)      == net (+) SetToBag({r})
Take(r)      == net (-) SetToBag({r})
Replace(r,s) == (net (-) SetToBag({r})) (+) SetToBag({s})
Pending      == BagToSet(net)

\* The reply of a remote call: { data, error }.
ReplyOk(r, data) == [r EXCEPT !.phase = "ok", !.data = data]
ReplyErr(r, m)   == [r EXCEPT !.phase = "err", !.msg = m]

----------------------------------------------------------------------------
(* The remote store: select / insert / update / delete as the query        *)
(* builders of the source use them.                                        *)

\* All orderings of a finite set of rows.
Perms(S) ==
  {f \in [1..Cardinality(S) -> S] : \A i, j \in 1..Cardinality(S) : i # j => f[i] # f[j]}

\* .order('created_at', { ascending: false }): the order of equal keys is the store's choice.
OrderByCreatedDesc(S) ==
  {f \in Perms(S) : \A i, j \in 1..Cardinality(S) : i < j => f[i].created_at >= f[j].created_at}

\* .select('id, title, description, status, due_date, employee_email, created_at')
TaskColumns(row) ==
  [id |-> row.id, title |-> row.title, description |-> row.description,
   status |-> row.status, due_date |-> row.due_date,
   employee_email |-> row.employee_email, created_at |-> row.created_at]

SelectTasks(rows) ==
  {[i \in DOMAIN f |-> TaskColumns(f[i])] : f \in OrderByCreatedDesc(rows)}

DueDateAsGiven(d) == d

\* task.due_date || null
DueDateOrNull(d) == IF TruthyStr(d) THEN d ELSE Null

\* The record createTask inserts / updateTask writes.
TaskFields(task) ==
  [title |-> task.title, description |-> task.description, status |-> task.status,
   due_date |-> DueDateOrNull(task.due_date), employee_email |-> task.employee_email]

\* The fields updateTaskStatus writes, as a function of the row it lands on.
StatusFieldsDropStamp(row, status, stamp) ==
  [row EXCEPT !.status = status]

StatusFields(row, status, stamp) ==
  IF status = "done"
    THEN [row EXCEPT !.status = status, !.completed_at = Some(stamp)]
    ELSE [row EXCEPT !.status = status]

\* insert([...]) into tasks: the store sets id and created_at; completed_at has no value.
InsertTask(rows, fields, id, time) ==
  rows \cup {[id |-> id, title |-> fields.title, description |-> fields.description,
              status |-> fields.status, due_date |-> fields.due_date,
              employee_email |-> fields.employee_email,
              created_at |-> time, completed_at |-> Null]}

\* update({...}).eq('id', id) on tasks
UpdateTaskRows(rows, fields, id) ==
  {IF TruthyId(id) /\ row.id = id[1]
     THEN [row EXCEPT !.title = fields.title, !.description = fields.description,
                      !.status = fields.status, !.due_date = fields.due_date,
                      !.employee_email = fields.employee_email]
     ELSE row : row \in rows}

UpdateStatusRows(rows, id, status, stamp) ==
  {IF row.id = id THEN StatusFields(row, status, stamp) ELSE row : row \in rows}

DeleteRowsLosesOlder(rows, id) == {row \in rows : row.id > id}

\* delete().eq('id', id)
DeleteRows(rows, id) == {row \in rows : row.id # id}

----------------------------------------------------------------------------
(* Task Access Layer: what each exported function asks of the store.       *)

getTasksForManager(rows) == SelectTasks(rows)

getTasksForEmployeeNoFilter(rows, email) == SelectTasks(rows)

getTasksForEmployee(rows, email) ==
  SelectTasks({row \in rows : row.employee_email = email})

createTask(rows, task, id, time) == InsertTask(rows, TaskFields(task), id, time)

updateTask(rows, task) == UpdateTaskRows(rows, TaskFields(task), task.id)

updateTaskStatus(rows, id, status, stamp) == UpdateStatusRows(rows, id, status, stamp)

deleteTask(rows, id) == DeleteRows(rows, id)

----------------------------------------------------------------------------
(* Initial values of the three components (the useState initialisers).     *)

AppInit ==
  /\ session = Null /\ profile = Null /\ loading = TRUE /\ error = ""
  /\ subscribed = "none"

ManagerInit ==
  /\ employees = <<>> /\ mLoading = TRUE /\ mError = "" /\ editingEmployee = Null
  /\ tasks = <<>> /\ tasksLoading = TRUE /\ tasksError = "" /\ editingTask = Null
  /\ confirmDelete = Null

EmployeeInit ==
  /\ userEmail = "" /\ employee = Null /\ eLoading = TRUE /\ eError = ""
  /\ eTasks = <<>> /\ eTasksLoading = TRUE /\ eTasksError = ""

\* A call of the Task Access Layer: the function, the id / status / email it was
\* given (Null / "" when it takes none) and whether the store accepted it.
NoCall == [fn |-> "none", id |-> Null, status |-> "", email |-> "", ok |-> TRUE]

Call(fn, id, status, email, ok) ==
  [fn |-> fn, id |-> id, status |-> status, email |-> email, ok |-> ok]

\* A call of createTask / updateTask: also the task it was given.
CallWith(fn, id, task, ok) ==
  [fn |-> fn, id |-> id, status |-> task.status, email |-> "", ok |-> ok,
   task |-> [id |-> task.id, title |-> task.title, description |-> task.description,
             status |-> task.status, due_date |-> task.due_date,
             employee_email |-> task.employee_email]]

----------------------------------------------------------------------------
(* Scope "tasks": a caller that uses the Task Access Layer directly, one   *)
(* call at a time.  A call either fails (the store reports an error, the   *)
(* function throws, nothing is written) or does what the function asks.    *)

TasksInit ==
  /\ scope = "tasks"
  /\ dbTasks = {} /\ dbEmployees = {} /\ nextId = 1 /\ now = 1
  /\ net = EmptyBag /\ last = NoCall /\ ret = <<>> /\ deleted = {} /\ mounted = FALSE
  /\ AppInit /\ ManagerInit /\ EmployeeInit

TasksFrame == UNCHANGED <<scope, mounted, dbEmployees, net, appVars, mgrVars, empVars>>

\* The clock advances.
Tick ==
  /\ now < MaxClock
  /\ now' = now + 1
  /\ UNCHANGED <<scope, mounted, dbTasks, dbEmployees, nextId, net, svcVars, appVars, mgrVars, empVars>>

CallGetTasksForManager ==
  /\ scope = "tasks"
  /\ \/ \E rows \in getTasksForManager(dbTasks) :
           /\ ret' = rows
           /\ last' = Call("getTasksForManager", Null, "", "", TRUE)
     \/ /\ ret' = <<>>
        /\ last' = Call("getTasksForManager", Null, "", "", FALSE)
  /\ UNCHANGED <<dbTasks, nextId, now>>
  /\ UNCHANGED deleted
  /\ TasksFrame

CallGetTasksForEmployee(email) ==
  /\ scope = "tasks"
  /\ \/ \E rows \in getTasksForEmployee(dbTasks, email) :
           /\ ret' = rows
           /\ last' = Call("getTasksForEmployee", Null, "", email, TRUE)
     \/ /\ ret' = <<>>
        /\ last' = Call("getTasksForEmployee", Null, "", email, FALSE)
  /\ UNCHANGED <<dbTasks, nextId, now>>
  /\ UNCHANGED deleted
  /\ TasksFrame

CallCreateTask(task) ==
  /\ scope = "tasks"
  /\ \/ /\ nextId <= MaxRows
        /\ dbTasks' = createTask(dbTasks, task, nextId, now)
        /\ nextId' = nextId + 1
        /\ last' = CallWith("createTask", Some(nextId), task, TRUE)
     \/ /\ UNCHANGED <<dbTasks, nextId>>
        /\ last' = CallWith("createTask", Null, task, FALSE)
  /\ ret' = <<>>
  /\ UNCHANGED now
  /\ UNCHANGED deleted
  /\ TasksFrame

CallUpdateTask(task) ==
  /\ scope = "tasks"
  /\ \/ /\ dbTasks' = updateTask(dbTasks, task)
        /\ last' = CallWith("updateTask", task.id, task, TRUE)
     \/ /\ UNCHANGED dbTasks
        /\ last' = CallWith("updateTask", task.id, task, FALSE)
  /\ ret' = <<>>
  /\ UNCHANGED <<nextId, now>>
  /\ UNCHANGED deleted
  /\ TasksFrame

CallUpdateTaskStatus(id, status) ==
  /\ scope = "tasks"
  /\ \/ /\ dbTasks' = updateTaskStatus(dbTasks, id, status, now)
        /\ last' = Call("updateTaskStatus", Some(id), status, "", TRUE)
     \/ /\ UNCHANGED dbTasks
        /\ last' = Call("updateTaskStatus", Some(id), status, "", FALSE)
  /\ ret' = <<>>
  /\ UNCHANGED <<nextId, now>>
  /\ UNCHANGED deleted
  /\ TasksFrame

CallDeleteTask(id) ==
  /\ scope = "tasks"
  /\ \/ /\ dbTasks' = deleteTask(dbTasks, id)
        /\ deleted' = deleted \cup {row.id : row \in dbTasks \ dbTasks'}
        /\ last' = Call("deleteTask", Some(id), "", "", TRUE)
     \/ /\ UNCHANGED <<dbTasks, deleted>>
        /\ last' = Call("deleteTask", Some(id), "", "", FALSE)
  /\ ret' = <<>>
  /\ UNCHANGED <<nextId, now>>
  /\ TasksFrame

TasksNext ==
  \/ Tick
  \/ CallGetTasksForManager
  \/ \E e \in Emails : CallGetTasksForEmployee(e)
  \/ \E v \in TaskValues : CallCreateTask(WithId(v, Null))
  \/ \E v \in TaskValues, i \in 1..MaxRows : CallUpdateTask(WithId(v, Some(i)))
  \/ \E i \in 1..MaxRows, s \in Statuses : CallUpdateTaskStatus(i, s)
  \/ \E i \in 1..MaxRows : CallDeleteTask(i)

SpecTasks == TasksInit /\ [][TasksNext]_vars

----------------------------------------------------------------------------
(* The auth service and the profiles table, as App uses them.              *)

Users == {"u1", "u2"}

\* session.user.email of each user
EmailOf(u) == IF u = "u1" THEN "m@x.com" ELSE "a@x.com"

SessionOf(u) == [uid |-> u, email |-> EmailOf(u)]

Sessions == {SessionOf(u) : u \in Users}

\* Table profiles: never written by the application.
Profiles ==
  { [id |-> "u1", full_name |-> "Mia", role |-> "manager"],
    [id |-> "u2", full_name |-> "Eli", role |-> "employee"] }

\* The message of an error the auth service reports.
AuthMessages == {"Invalid login credentials"}

\* Any request may fail at the store: { data: null, error }.
ServerFails(r) ==
  /\ r.phase = "sent"
  /\ \E m \in AuthMessages : net' = Replace(r, ReplyErr(r, m))
  /\ UNCHANGED <<scope, mounted, dbTasks, dbEmployees, nextId, now, svcVars, appVars, mgrVars, empVars>>

\* supabase.auth.getSession(): the stored session, if any.
ServerGetSession(r) ==
  /\ r.phase = "sent" /\ r.site = "getSession"
  /\ \E s \in {Null} \cup {Some(x) : x \in Sessions} : net' = Replace(r, ReplyOk(r, s))
  /\ UNCHANGED <<scope, mounted, dbTasks, dbEmployees, nextId, now, svcVars, appVars, mgrVars, empVars>>

\* supabase.auth.signInWithPassword({ email, password }) with valid credentials.
ServerSignIn(r) ==
  /\ r.phase = "sent" /\ r.site = "signIn"
  /\ net' = Replace(r, ReplyOk(r, Some(SessionOf(r.arg.uid))))
  /\ UNCHANGED <<scope, mounted, dbTasks, dbEmployees, nextId, now, svcVars, appVars, mgrVars, empVars>>

\* supabase.auth.signOut()
ServerSignOut(r) ==
  /\ r.phase = "sent" /\ r.site = "signOut"
  /\ net' = Replace(r, ReplyOk(r, Null))
  /\ UNCHANGED <<scope, mounted, dbTasks, dbEmployees, nextId, now, svcVars, appVars, mgrVars, empVars>>

\* from('profiles').select('id, full_name, role').eq('id', userId).single()
ServerSelectProfile(r) ==
  /\ r.phase = "sent" /\ r.site = "fetchProfile"
  /\ \E row \in Profiles :
        /\ row.id = r.arg.uid
        /\ net' = Replace(r, ReplyOk(r, Some(row)))
  /\ UNCHANGED <<scope, mounted, dbTasks, dbEmployees, nextId, now, svcVars, appVars, mgrVars, empVars>>

----------------------------------------------------------------------------
(* App: the session / role resolver.                                       *)

\* What App renders.
View ==
  IF loading THEN "loading"
  ELSE IF session = Null THEN "login"
  ELSE IF profile # Null /\ profile[1].role = "manager" THEN "manager"
  ELSE "employee"

\* State setters are dropped once the component is unmounted.
Live == subscribed = "active"

AppFrame == UNCHANGED <<scope, mounted, dbTasks, dbEmployees, nextId, now, svcVars, mgrVars, empVars>>

\* fetchProfile(userId), up to its await; who called it is kept for what follows it.
fetchProfile(from, uid) == Req("fetchProfile", from, [uid |-> uid])

\* useEffect(() => { loadInitialSession(); ... onAuthStateChange(...) }, [])
AppMount ==
  /\ scope = "app" /\ subscribed = "none"
  /\ subscribed' = "active"
  /\ net' = Send(Req("getSession", "init", NoArg))
  /\ UNCHANGED <<session, profile, loading, error>>
  /\ AppFrame

\* the cleanup of the effect: subscription.unsubscribe()
AppUnmount ==
  /\ scope = "app" /\ subscribed = "active"
  /\ subscribed' = "unsubscribed"
  /\ UNCHANGED <<session, profile, loading, error, net>>
  /\ AppFrame

LoadInitialSessionResumesStaysLoading(r) ==
  /\ scope = "app" /\ r.site = "getSession" /\ r.phase \in {"ok", "err"}
  /\ LET currentSession == IF r.phase = "ok" THEN r.data ELSE Null IN
       /\ session' = IF Live THEN currentSession ELSE session
       /\ IF currentSession # Null
            THEN net' = Replace(r, fetchProfile("init", currentSession[1].uid))
            ELSE net' = Take(r)
  /\ UNCHANGED <<profile, loading, error, subscribed>>
  /\ AppFrame

\* loadInitialSession after await getSession()
LoadInitialSessionResumes(r) ==
  /\ scope = "app" /\ r.site = "getSession" /\ r.phase \in {"ok", "err"}
  /\ LET currentSession == IF r.phase = "ok" THEN r.data ELSE Null IN
       /\ session' = IF Live THEN currentSession ELSE session
       /\ IF currentSession # Null
            THEN /\ net' = Replace(r, fetchProfile("init", currentSession[1].uid))
                 /\ UNCHANGED loading
            ELSE /\ net' = Take(r)
                 /\ loading' = IF Live THEN FALSE ELSE loading
  /\ UNCHANGED <<profile, error, subscribed>>
  /\ AppFrame

FetchProfileKeepsOnError(r) ==
  /\ scope = "app" /\ r.site = "fetchProfile" /\ r.phase \in {"ok", "err"}
  /\ profile' = IF ~Live \/ r.phase = "err" THEN profile ELSE r.data
  /\ loading' = IF Live /\ r.from = "init" THEN FALSE ELSE loading
  /\ net' = Take(r)
  /\ UNCHANGED <<session, error, subscribed>>
  /\ AppFrame

\* fetchProfile after its await, and what its caller does next
\* (loadInitialSession: setLoading(false)).
FetchProfileResumes(r) ==
  /\ scope = "app" /\ r.site = "fetchProfile" /\ r.phase \in {"ok", "err"}
  /\ profile' = IF ~Live THEN profile
                ELSE IF r.phase = "err" THEN Null ELSE r.data
  /\ loading' = IF Live /\ r.from = "init" THEN FALSE ELSE loading
  /\ net' = Take(r)
  /\ UNCHANGED <<session, error, subscribed>>
  /\ AppFrame

OnAuthStateChangeAfterRelease(newSession) ==
  /\ scope = "app" /\ subscribed # "none"
  /\ session' = newSession
  /\ IF newSession # Null
       THEN /\ InFlight < MaxInFlight
            /\ net' = Send(fetchProfile("notify", newSession[1].uid))
            /\ UNCHANGED profile
       ELSE /\ profile' = Null
            /\ UNCHANGED net
  /\ UNCHANGED <<loading, error, subscribed>>
  /\ AppFrame

\* the onAuthStateChange callback
OnAuthStateChange(newSession) ==
  /\ scope = "app" /\ subscribed = "active"
  /\ session' = newSession
  /\ IF newSession # Null
       THEN /\ InFlight < MaxInFlight
            /\ net' = Send(fetchProfile("notify", newSession[1].uid))
            /\ UNCHANGED profile
       ELSE /\ profile' = Null
            /\ UNCHANGED net
  /\ UNCHANGED <<loading, error, subscribed>>
  /\ AppFrame

\* handleLogin up to await signInWithPassword: the login form is on screen.
HandleLogin(uid) ==
  /\ scope = "app" /\ Live /\ View = "login"
  /\ InFlight < MaxInFlight
  /\ error' = ""
  /\ net' = Send(Req("signIn", "login", [uid |-> uid]))
  /\ UNCHANGED <<session, profile, loading, subscribed>>
  /\ AppFrame

HandleLoginResumesSilent(r) ==
  /\ scope = "app" /\ r.site = "signIn" /\ r.phase \in {"ok", "err"}
  /\ IF r.phase = "err"
       THEN /\ net' = Take(r)
            /\ UNCHANGED <<session, error>>
       ELSE /\ session' = IF Live THEN r.data ELSE session
            /\ net' = IF r.data # Null
                        THEN Replace(r, fetchProfile("login", r.data[1].uid))
                        ELSE Take(r)
            /\ UNCHANGED error
  /\ UNCHANGED <<profile, loading, subscribed>>
  /\ AppFrame

\* handleLogin after the await
HandleLoginResumes(r) ==
  /\ scope = "app" /\ r.site = "signIn" /\ r.phase \in {"ok", "err"}
  /\ IF r.phase = "err"
       THEN /\ error' = IF Live THEN r.msg ELSE error
            /\ net' = Take(r)
            /\ UNCHANGED session
       ELSE /\ session' = IF Live THEN r.data ELSE session
            /\ net' = IF r.data # Null
                        THEN Replace(r, fetchProfile("login", r.data[1].uid))
                        ELSE Take(r)
            /\ UNCHANGED error
  /\ UNCHANGED <<profile, loading, subscribed>>
  /\ AppFrame

\* handleLogout up to await signOut: the Logout button is on screen.
HandleLogout ==
  /\ scope = "app" /\ Live /\ View \in {"manager", "employee"}
  /\ InFlight < MaxInFlight
  /\ net' = Send(Req("signOut", "logout", NoArg))
  /\ UNCHANGED <<session, profile, loading, error, subscribed>>
  /\ AppFrame

\* handleLogout after the await: the result of signOut is not looked at.
HandleLogoutResumes(r) ==
  /\ scope = "app" /\ r.site = "signOut" /\ r.phase \in {"ok", "err"}
  /\ session' = IF Live THEN Null ELSE session
  /\ profile' = IF Live THEN Null ELSE profile
  /\ net' = Take(r)
  /\ UNCHANGED <<loading, error, subscribed>>
  /\ AppFrame

AppStart ==
  /\ scope = "app"
  /\ dbTasks = {} /\ dbEmployees = {} /\ nextId = 1 /\ now = 1
  /\ net = EmptyBag /\ last = NoCall /\ ret = <<>> /\ deleted = {} /\ mounted = FALSE
  /\ AppInit /\ ManagerInit /\ EmployeeInit

AppNext ==
  \/ AppMount
  \/ AppUnmount
  \/ \E s \in {Null} \cup {Some(x) : x \in Sessions} : OnAuthStateChange(s)
  \/ \E u \in Users : HandleLogin(u)
  \/ HandleLogout
  \/ \E r \in Pending : scope = "app" /\ ServerFails(r)
  \/ \E r \in Pending : ServerGetSession(r)
  \/ \E r \in Pending : ServerSignIn(r)
  \/ \E r \in Pending : ServerSignOut(r)
  \/ \E r \in Pending : ServerSelectProfile(r)
  \/ \E r \in Pending : LoadInitialSessionResumes(r)
  \/ \E r \in Pending : FetchProfileResumes(r)
  \/ \E r \in Pending : HandleLoginResumes(r)
  \/ \E r \in Pending : HandleLogoutResumes(r)

SpecApp == AppStart /\ [][AppNext]_vars

\* A request of loadInitialSession is answered, or the answer is taken by the
\* code that awaits it.  Every remote call completes and every await resumes,
\* so this step is not postponed for ever.
InitialLoadStep ==
  \E r \in Pending :
     /\ r.from = "init"
     /\ \/ scope = "app" /\ ServerFails(r)
        \/ ServerGetSession(r)
        \/ ServerSelectProfile(r)
        \/ LoadInitialSessionResumes(r)
        \/ FetchProfileResumes(r)

SpecAppFair == SpecApp /\ WF_vars(InitialLoadStep)

----------------------------------------------------------------------------
(* The store's side of the requests on tables tasks and employees.         *)

NotClient == UNCHANGED <<scope, mounted, svcVars, appVars, mgrVars, empVars>>

ServerGetTasksForManager(r) ==
  /\ r.phase = "sent" /\ r.site = "getTasksForManager"
  /\ \E rows \in getTasksForManager(dbTasks) : net' = Replace(r, ReplyOk(r, rows))
  /\ UNCHANGED <<dbTasks, dbEmployees, nextId, now>> /\ NotClient

ServerGetTasksForEmployee(r) ==
  /\ r.phase = "sent" /\ r.site = "getTasksForEmployee"
  /\ \E rows \in getTasksForEmployee(dbTasks, r.arg.email) : net' = Replace(r, ReplyOk(r, rows))
  /\ UNCHANGED <<dbTasks, dbEmployees, nextId, now>> /\ NotClient

\* The clock moves on with every insert a dashboard makes.
ServerCreateTask(r) ==
  /\ r.phase = "sent" /\ r.site = "createTask"
  /\ nextId <= MaxRows
  /\ dbTasks' = createTask(dbTasks, r.arg, nextId, now)
  /\ nextId' = nextId + 1
  /\ now' = now + 1
  /\ net' = Replace(r, ReplyOk(r, <<>>))
  /\ UNCHANGED dbEmployees /\ NotClient

ServerUpdateTask(r) ==
  /\ r.phase = "sent" /\ r.site = "updateTask"
  /\ dbTasks' = updateTask(dbTasks, r.arg)
  /\ net' = Replace(r, ReplyOk(r, <<>>))
  /\ UNCHANGED <<dbEmployees, nextId, now>> /\ NotClient

ServerUpdateTaskStatus(r) ==
  /\ r.phase = "sent" /\ r.site = "updateTaskStatus"
  /\ dbTasks' = updateTaskStatus(dbTasks, r.arg.id[1], r.arg.status, r.arg.stamp)
  /\ net' = Replace(r, ReplyOk(r, <<>>))
  /\ UNCHANGED <<dbEmployees, nextId, now>> /\ NotClient

ServerDeleteTask(r) ==
  /\ r.phase = "sent" /\ r.site = "deleteTask"
  /\ dbTasks' = deleteTask(dbTasks, r.arg.id[1])
  /\ net' = Replace(r, ReplyOk(r, <<>>))
  /\ UNCHANGED <<dbEmployees, nextId, now>> /\ NotClient

\* full_name in ascending order
NameRank(n) == CASE n = "Ann" -> 1 [] n = "Bob" -> 2 [] n = "Cy" -> 3 [] OTHER -> 0

\* .select('id, full_name, email, role, status')
EmployeeColumns(row) ==
  [id |-> row.id, full_name |-> row.full_name, email |-> row.email,
   role |-> row.role, status |-> row.status]

\* .order('full_name', { ascending: true })
SelectEmployees(rows) ==
  {[i \in DOMAIN f |-> EmployeeColumns(f[i])] :
     f \in {g \in Perms(rows) :
              \A i, j \in 1..Cardinality(rows) :
                 i < j => NameRank(g[i].full_name) <= NameRank(g[j].full_name)}}

\* from('employees').select(...).order('full_name', { ascending: true })
ServerSelectEmployees(r) ==
  /\ r.phase = "sent" /\ r.site = "loadEmployees"
  /\ \E rows \in SelectEmployees(dbEmployees) : net' = Replace(r, ReplyOk(r, rows))
  /\ UNCHANGED <<dbTasks, dbEmployees, nextId, now>> /\ NotClient

\* The error of .single() when the query matches no row or several.
NotSingleRow == "JSON object requested, multiple (or no) rows returned"

\* from('employees').select(...).eq('email', userEmail).single(): exactly one row, or an error
ServerSelectEmployeeByEmail(r) ==
  /\ r.phase = "sent" /\ r.site = "loadEmployee"
  /\ LET match == {row \in dbEmployees : row.email = r.arg.email} IN
       IF Cardinality(match) = 1
         THEN \E row \in match : net' = Replace(r, ReplyOk(r, Some(EmployeeColumns(row))))
         ELSE net' = Replace(r, ReplyErr(r, NotSingleRow))
  /\ UNCHANGED <<dbTasks, dbEmployees, nextId, now>> /\ NotClient

\* The messages of the constraints of table employees (id uuid primary key,
\* without a default; email text not null unique).
NotNullId   == "null value in column id violates not-null constraint"
UniqueEmail == "duplicate key value violates unique constraint employees_email_key"

\* insert into employees: the row is stored when it has an id and its email is
\* new; a row without an id gets none from the table and is rejected.
InsertEmployee(rows, rec, time) ==
  IF rec.id = Null
    THEN [ok |-> FALSE, msg |-> NotNullId, rows |-> rows]
  ELSE IF \E row \in rows : row.email = rec.email \/ row.id = rec.id[1]
    THEN [ok |-> FALSE, msg |-> UniqueEmail, rows |-> rows]
  ELSE [ok |-> TRUE, msg |-> "",
        rows |-> rows \cup {[id |-> rec.id[1], full_name |-> rec.full_name,
                             email |-> rec.email, role |-> rec.role,
                             status |-> rec.status, created_at |-> time]}]

\* The object saveEmployee inserts: { full_name, email, role, status }, no id.
InsertedRecord(formValues) ==
  [id |-> Null, full_name |-> formValues.full_name, email |-> formValues.email,
   role |-> formValues.role, status |-> formValues.status]

\* from('employees').insert([{ full_name, email, role, status }])
ServerInsertEmployee(r) ==
  /\ r.phase = "sent" /\ r.site = "insertEmployee"
  /\ LET res == InsertEmployee(dbEmployees, InsertedRecord(r.arg), now) IN
       /\ dbEmployees' = res.rows
       /\ net' = Replace(r, IF res.ok THEN ReplyOk(r, <<>>) ELSE ReplyErr(r, res.msg))
  /\ UNCHANGED <<dbTasks, nextId, now>> /\ NotClient

UpdateEmployeeNoFilter(rows, rec) ==
  [ok |-> TRUE, msg |-> "",
   rows |-> {IF row.id = rec.id[1]
               THEN [row EXCEPT !.full_name = rec.full_name, !.email = rec.email,
                                !.role = rec.role, !.status = rec.status]
               ELSE [row EXCEPT !.role = rec.role, !.status = rec.status] : row \in rows}]

\* update employees set full_name, email, role, status where id = rec.id: the
\* rows with that id get the new fields, unless the email belongs to another row.
UpdateEmployee(rows, rec) ==
  IF \E row \in rows : row.id = rec.id[1]
       /\ \E other \in rows : other.id # rec.id[1] /\ other.email = rec.email
    THEN [ok |-> FALSE, msg |-> UniqueEmail, rows |-> rows]
    ELSE [ok |-> TRUE, msg |-> "",
          rows |-> {IF row.id = rec.id[1]
                      THEN [row EXCEPT !.full_name = rec.full_name, !.email = rec.email,
                                       !.role = rec.role, !.status = rec.status]
                      ELSE row : row \in rows}]

\* from('employees').update({ full_name, email, role, status }).eq('id', id)
ServerUpdateEmployee(r) ==
  /\ r.phase = "sent" /\ r.site = "updateEmployee"
  /\ LET res == UpdateEmployee(dbEmployees, r.arg) IN
       /\ dbEmployees' = res.rows
       /\ net' = Replace(r, IF res.ok THEN ReplyOk(r, <<>>) ELSE ReplyErr(r, res.msg))
  /\ UNCHANGED <<dbTasks, nextId, now>> /\ NotClient

----------------------------------------------------------------------------
(* ManagerDashboard                                                        *)

EmployeeValue(name, email, role, status) ==
  [full_name |-> name, email |-> email, role |-> role, status |-> status]

\* What the manager submits in the employee form.
EmployeeValues ==
  { EmployeeValue("Ann", "a@x.com", "employee", "active"),
    EmployeeValue("Bob", "b@x.com", "manager", "inactive") }

\* What the manager submits in the task form.
FormTaskValues ==
  { TaskValue("T1", "todo", Some(""), "a@x.com"),
    TaskValue("T2", "done", Some("2026-01-01"), "") }

EmployeeWithId(v, id) ==
  [id |-> id, full_name |-> v.full_name, email |-> v.email, role |-> v.role,
   status |-> v.status]

\* The Manager Dashboard is mounted; a run works in one of its two sections.
InManager == scope \in {"managerTasks", "managerEmployees"}

MgrFrame == UNCHANGED <<scope, mounted, dbTasks, dbEmployees, nextId, now, svcVars, appVars, empVars,
                        confirmDelete>>
EmployeesSide == <<employees, mLoading, mError, editingEmployee>>
TasksSide     == <<tasks, tasksLoading, tasksError, editingTask>>

\* loadEmployees / loadTasks up to the await: the request each sends.
loadEmployees(from) == Req("loadEmployees", from, NoArg)
loadTasks(from)     == Req("getTasksForManager", from, NoArg)

\* useEffect(() => { loadEmployees(); loadTasks() }, [])
MgrMount ==
  /\ InManager /\ ~mounted
  /\ mounted' = TRUE
  /\ net' = SetToBag({loadEmployees("mount"), loadTasks("mount")})
  /\ UNCHANGED <<EmployeesSide, TasksSide, confirmDelete>>
  /\ UNCHANGED <<scope, dbTasks, dbEmployees, nextId, now, svcVars, appVars, empVars>>

LoadEmployeesResumesSharedError(r) ==
  /\ InManager /\ r.site = "loadEmployees" /\ r.phase \in {"ok", "err"}
  /\ IF r.phase = "err"
       THEN /\ mError' = "Could not load employees"
            /\ tasksError' = ""
            /\ UNCHANGED employees
       ELSE /\ employees' = r.data
            /\ UNCHANGED <<mError, tasksError>>
  /\ mLoading' = FALSE
  /\ net' = Take(r)
  /\ UNCHANGED <<editingEmployee, tasks, tasksLoading, editingTask>>
  /\ MgrFrame

\* loadEmployees after the await
LoadEmployeesResumes(r) ==
  /\ InManager /\ r.site = "loadEmployees" /\ r.phase \in {"ok", "err"}
  /\ IF r.phase = "err"
       THEN /\ mError' = "Could not load employees"
            /\ UNCHANGED employees
       ELSE /\ employees' = r.data
            /\ UNCHANGED mError
  /\ mLoading' = FALSE
  /\ net' = Take(r)
  /\ UNCHANGED <<editingEmployee, TasksSide>>
  /\ MgrFrame

\* loadTasks after the await
LoadTasksResumes(r) ==
  /\ InManager /\ r.site = "getTasksForManager" /\ r.phase \in {"ok", "err"}
  /\ IF r.phase = "err"
       THEN /\ tasksError' = "Could not load tasks"
            /\ UNCHANGED tasks
       ELSE /\ tasks' = r.data
            /\ UNCHANGED tasksError
  /\ tasksLoading' = FALSE
  /\ net' = Take(r)
  /\ UNCHANGED <<editingTask, EmployeesSide>>
  /\ MgrFrame

startCreate ==
  /\ scope = "managerEmployees" /\ mounted
  /\ editingEmployee' =
       Some([id |-> Null, full_name |-> "", email |-> "", role |-> "employee",
             status |-> "active"])
  /\ UNCHANGED <<employees, mLoading, mError, TasksSide, net>>
  /\ MgrFrame

\* the Edit button of a row of the employees table
startEdit(i) ==
  /\ scope = "managerEmployees" /\ mounted /\ ~mLoading /\ i \in DOMAIN employees
  /\ editingEmployee' = Some([employees[i] EXCEPT !.id = Some(employees[i].id)])
  /\ UNCHANGED <<employees, mLoading, mError, TasksSide, net>>
  /\ MgrFrame

\* onCancel of EmployeeForm
CancelEmployee ==
  /\ scope = "managerEmployees" /\ mounted /\ editingEmployee # Null
  /\ editingEmployee' = Null
  /\ UNCHANGED <<employees, mLoading, mError, TasksSide, net>>
  /\ MgrFrame

startCreateTaskFixedAssignee ==
  /\ scope = "managerTasks" /\ mounted
  /\ editingTask' =
       Some([id |-> Null, title |-> "", description |-> "", status |-> "todo",
             due_date |-> Some(""), employee_email |-> "a@x.com"])
  /\ UNCHANGED <<tasks, tasksLoading, tasksError, EmployeesSide, net>>
  /\ MgrFrame

startCreateTask ==
  /\ scope = "managerTasks" /\ mounted
  /\ LET firstEmployeeEmail ==
           IF Len(employees) >= 1 /\ employees[1].email # ""
             THEN employees[1].email ELSE ""
     IN editingTask' =
          Some([id |-> Null, title |-> "", description |-> "", status |-> "todo",
                due_date |-> Some(""), employee_email |-> firstEmployeeEmail])
  /\ UNCHANGED <<tasks, tasksLoading, tasksError, EmployeesSide, net>>
  /\ MgrFrame

\* task.due_date.slice(0, 10): the first ten characters, the date of a timestamp.
Slice10(d) ==
  CASE d = "2026-01-01T00:00:00+00:00" -> "2026-01-01"
    [] d = "2026-01"                   -> "2026-01"
    [] OTHER                           -> d

\* the Edit button of a row of the tasks table
startEditTask(i) ==
  /\ scope = "managerTasks" /\ mounted /\ ~tasksLoading /\ i \in DOMAIN tasks
  /\ editingTask' =
       Some([id |-> Some(tasks[i].id), title |-> tasks[i].title,
             description |-> tasks[i].description, status |-> tasks[i].status,
             due_date |-> IF TruthyStr(tasks[i].due_date)
                            THEN Some(Slice10(tasks[i].due_date[1])) ELSE Some(""),
             employee_email |-> tasks[i].employee_email,
             created_at |-> tasks[i].created_at])
  /\ UNCHANGED <<tasks, tasksLoading, tasksError, EmployeesSide, net>>
  /\ MgrFrame

\* onCancel of TaskForm
CancelTask ==
  /\ scope = "managerTasks" /\ mounted /\ editingTask # Null
  /\ editingTask' = Null
  /\ UNCHANGED <<tasks, tasksLoading, tasksError, EmployeesSide, net>>
  /\ MgrFrame

\* The call saveTask makes for the submitted values.
SaveTaskAlwaysCreates(taskValues) == Req("createTask", "saveTask", taskValues)

SaveTaskRequest(taskValues) ==
  IF TruthyId(taskValues.id)
    THEN Req("updateTask", "saveTask", taskValues)
    ELSE Req("createTask", "saveTask", taskValues)

\* The assignee a TaskForm can hold: the one it was opened with, or the value
\* of an <option>, one per listed employee.
AssigneeChoices(task) ==
  {task.employee_email} \cup {employees[k].email : k \in DOMAIN employees}

\* TaskForm.handleSubmit -> saveTask(formValues), up to the await.  The form
\* holds the id of the task it was opened for and whatever was typed.
saveTask(v) ==
  /\ scope = "managerTasks" /\ mounted /\ editingTask # Null
  /\ v.employee_email \in AssigneeChoices(editingTask[1])
  /\ InFlight < MaxInFlight
  /\ tasksError' = ""
  /\ net' = Send(SaveTaskRequest(WithId(v, editingTask[1].id)))
  /\ UNCHANGED <<tasks, tasksLoading, editingTask, EmployeesSide>>
  /\ MgrFrame

SaveTaskResumesClosesOnError(r) ==
  /\ InManager /\ r.from = "saveTask"
  /\ r.site \in {"createTask", "updateTask"} /\ r.phase \in {"ok", "err"}
  /\ editingTask' = Null
  /\ IF r.phase = "ok"
       THEN /\ tasksLoading' = TRUE
            /\ tasksError' = ""
            /\ net' = Replace(r, loadTasks("saveTask"))
       ELSE /\ tasksError' = "Could not save task"
            /\ net' = Take(r)
            /\ UNCHANGED tasksLoading
  /\ UNCHANGED <<tasks, EmployeesSide>>
  /\ MgrFrame

\* saveTask after the await: close the form and loadTasks(), or the catch.
SaveTaskResumes(r) ==
  /\ InManager /\ r.from = "saveTask"
  /\ r.site \in {"createTask", "updateTask"} /\ r.phase \in {"ok", "err"}
  /\ IF r.phase = "ok"
       THEN /\ editingTask' = Null
            /\ tasksLoading' = TRUE
            /\ tasksError' = ""
            /\ net' = Replace(r, loadTasks("saveTask"))
       ELSE /\ tasksError' = "Could not save task"
            /\ net' = Take(r)
            /\ UNCHANGED <<editingTask, tasksLoading>>
  /\ UNCHANGED <<tasks, EmployeesSide>>
  /\ MgrFrame

\* The request handleDeleteTask sends once the prompt is answered.
DeleteRequestUnconfirmed(answer, id) == SetToBag({Req("deleteTask", "deleteTask", [id |-> Some(id)])})

DeleteRequest(answer, id) ==
  IF answer
    THEN SetToBag({Req("deleteTask", "deleteTask", [id |-> Some(id)])})
    ELSE EmptyBag

\* handleDeleteTask(id), up to the await: window.confirm('Delete this task?')
\* blocks until it is answered; a declined prompt returns at once.
handleDeleteTask(i, answer) ==
  /\ scope = "managerTasks" /\ mounted /\ ~tasksLoading /\ i \in DOMAIN tasks
  /\ answer => InFlight < MaxInFlight
  /\ confirmDelete' = Some(answer)
  /\ net' = net (+) DeleteRequest(answer, tasks[i].id)
  /\ UNCHANGED <<TasksSide, EmployeesSide>>
  /\ UNCHANGED <<scope, mounted, dbTasks, dbEmployees, nextId, now, svcVars, appVars, empVars>>

\* handleDeleteTask after the await
DeleteTaskResumes(r) ==
  /\ InManager /\ r.site = "deleteTask" /\ r.phase \in {"ok", "err"}
  /\ IF r.phase = "ok"
       THEN /\ tasksLoading' = TRUE
            /\ tasksError' = ""
            /\ net' = Replace(r, loadTasks("deleteTask"))
       ELSE /\ tasksError' = "Could not delete task"
            /\ net' = Take(r)
            /\ UNCHANGED tasksLoading
  /\ UNCHANGED <<tasks, editingTask, EmployeesSide>>
  /\ MgrFrame

\* The call saveEmployee makes for the submitted values.
SaveEmployeeRequest(formValues) ==
  IF TruthyId(formValues.id)
    THEN Req("updateEmployee", "saveEmployee", formValues)
    ELSE Req("insertEmployee", "saveEmployee", formValues)

\* EmployeeForm.handleSubmit -> saveEmployee(formValues), up to the await
saveEmployee(v) ==
  /\ scope = "managerEmployees" /\ mounted /\ editingEmployee # Null
  /\ InFlight < MaxInFlight
  /\ mError' = ""
  /\ net' = Send(SaveEmployeeRequest(EmployeeWithId(v, editingEmployee[1].id)))
  /\ UNCHANGED <<employees, mLoading, editingEmployee, TasksSide>>
  /\ MgrFrame

\* saveEmployee after the await
SaveEmployeeResumes(r) ==
  /\ InManager /\ r.from = "saveEmployee"
  /\ r.site \in {"insertEmployee", "updateEmployee"} /\ r.phase \in {"ok", "err"}
  /\ IF r.phase = "ok"
       THEN /\ editingEmployee' = Null
            /\ mLoading' = TRUE
            /\ mError' = ""
            /\ net' = Replace(r, loadEmployees("saveEmployee"))
       ELSE /\ mError' = IF r.site = "updateEmployee"
                           THEN "Could not update employee"
                           ELSE "Could not create employee"
            /\ net' = Take(r)
            /\ UNCHANGED <<editingEmployee, mLoading>>
  /\ UNCHANGED <<employees, TasksSide>>
  /\ MgrFrame

\* The employees the store holds before a run: rows put there with an id.
Ann == [id |-> 1, full_name |-> "Ann", email |-> "a@x.com", role |-> "employee",
        status |-> "active", created_at |-> 1]
Cy  == [id |-> 2, full_name |-> "Cy", email |-> "c@x.com", role |-> "employee",
        status |-> "active", created_at |-> 1]

\* A request of the dashboard fails at the store.  A run in the tasks section
\* has its employees load answered; the runs in the employees section cover
\* the failure of that load.
MgrServerFails(r) ==
  /\ InManager
  /\ scope = "managerTasks" => r.site # "loadEmployees"
  /\ ServerFails(r)

MgrStart ==
  /\ InManager
  /\ dbTasks = {} /\ nextId = 1 /\ now = 1
  /\ dbEmployees = IF scope = "managerTasks" THEN {Ann} ELSE {Ann, Cy}
  /\ net = EmptyBag /\ last = NoCall /\ ret = <<>> /\ deleted = {} /\ mounted = FALSE
  /\ AppInit /\ ManagerInit /\ EmployeeInit

MgrNext ==
  \/ MgrMount
  \/ startCreate
  \/ \E i \in 1..MaxRows : startEdit(i)
  \/ CancelEmployee
  \/ \E v \in EmployeeValues : saveEmployee(v)
  \/ startCreateTask
  \/ \E i \in 1..MaxRows : startEditTask(i)
  \/ CancelTask
  \/ \E v \in FormTaskValues : saveTask(v)
  \/ \E i \in 1..MaxRows, answer \in BOOLEAN : handleDeleteTask(i, answer)
  \/ \E r \in Pending : MgrServerFails(r)
  \/ \E r \in Pending : ServerSelectEmployees(r)
  \/ \E r \in Pending : ServerInsertEmployee(r)
  \/ \E r \in Pending : ServerUpdateEmployee(r)
  \/ \E r \in Pending : InManager /\ ServerGetTasksForManager(r)
  \/ \E r \in Pending : ServerCreateTask(r)
  \/ \E r \in Pending : ServerUpdateTask(r)
  \/ \E r \in Pending : ServerDeleteTask(r)
  \/ \E r \in Pending : LoadEmployeesResumes(r)
  \/ \E r \in Pending : LoadTasksResumes(r)
  \/ \E r \in Pending : SaveEmployeeResumes(r)
  \/ \E r \in Pending : SaveTaskResumes(r)
  \/ \E r \in Pending : DeleteTaskResumes(r)

SpecMgr == MgrStart /\ [][MgrNext]_vars

----------------------------------------------------------------------------
(* EmployeeDashboard                                                       *)

EmpFrame == UNCHANGED <<scope, dbTasks, dbEmployees, nextId, now, svcVars, appVars, mgrVars>>

\* The tasks the store holds before a run of the Employee Dashboard.
StoredTask(id, email, time) ==
  [id |-> id, title |-> "T1", description |-> "", status |-> "todo", due_date |-> Null,
   employee_email |-> email, created_at |-> time, completed_at |-> Null]

\* The emails a session can carry into the dashboard: Ann's, and one that has
\* tasks but no employee record.
SessionEmails == {"a@x.com", "b@x.com"}

\* loadEmployee() and loadEmployeeTasks() up to their awaits, for the userEmail of the render.
EffectRequests(email) ==
  SetToBag({ Req("loadEmployee", "effect", [email |-> email]),
             Req("getTasksForEmployee", "effect", [email |-> email]) })

\* useEffect(() => { ...; loadEmployee(); loadEmployeeTasks() }, [userEmail]) on mount
EmpMount ==
  /\ scope = "employee" /\ ~mounted
  /\ mounted' = TRUE
  /\ eLoading' = TRUE /\ eError' = ""
  /\ eTasksLoading' = TRUE /\ eTasksError' = ""
  /\ net' = net (+) EffectRequests(userEmail)
  /\ UNCHANGED <<userEmail, employee, eTasks>>
  /\ UNCHANGED <<scope, dbTasks, dbEmployees, nextId, now, svcVars, appVars, mgrVars>>

\* App renders the dashboard with another session.user.email: the effect runs again.
UserEmailChanges(email) ==
  /\ scope = "employee" /\ mounted /\ email # userEmail
  /\ InFlight < MaxInFlight
  /\ userEmail' = email
  /\ eLoading' = TRUE /\ eError' = ""
  /\ eTasksLoading' = TRUE /\ eTasksError' = ""
  /\ net' = net (+) EffectRequests(email)
  /\ UNCHANGED <<employee, eTasks, mounted>>
  /\ EmpFrame

\* loadEmployee after the await
LoadEmployeeResumes(r) ==
  /\ scope = "employee" /\ r.site = "loadEmployee" /\ r.phase \in {"ok", "err"}
  /\ IF r.phase = "err"
       THEN /\ eError' = "Could not load your employee record"
            /\ UNCHANGED employee
       ELSE /\ employee' = r.data
            /\ UNCHANGED eError
  /\ eLoading' = FALSE
  /\ net' = Take(r)
  /\ UNCHANGED <<userEmail, eTasks, eTasksLoading, eTasksError, mounted>>
  /\ EmpFrame

\* loadEmployeeTasks after the await
LoadEmployeeTasksResumes(r) ==
  /\ scope = "employee" /\ r.site = "getTasksForEmployee" /\ r.from = "effect"
  /\ r.phase \in {"ok", "err"}
  /\ IF r.phase = "err"
       THEN /\ eTasksError' = "Could not load your tasks"
            /\ UNCHANGED eTasks
       ELSE /\ eTasks' = r.data
            /\ UNCHANGED eTasksError
  /\ eTasksLoading' = FALSE
  /\ net' = Take(r)
  /\ UNCHANGED <<userEmail, employee, eLoading, eError, mounted>>
  /\ EmpFrame

handleStatusChangeFullUpdate(i, newStatus) ==
  /\ scope = "employee" /\ mounted /\ ~eTasksLoading /\ i \in DOMAIN eTasks
  /\ InFlight < MaxInFlight
  /\ net' = Send(Req("updateTask", "statusChange",
                     [id |-> Some(eTasks[i].id), status |-> newStatus, stamp |-> now,
                      email |-> userEmail]))
  /\ UNCHANGED <<empVars, mounted>>
  /\ EmpFrame

\* handleStatusChange(task.id, newStatus) up to await updateTaskStatus: the
\* select of a row of the table; userEmail is the one of the render.
handleStatusChange(i, newStatus) ==
  /\ scope = "employee" /\ mounted /\ ~eTasksLoading /\ i \in DOMAIN eTasks
  /\ InFlight < MaxInFlight
  /\ net' = Send(Req("updateTaskStatus", "statusChange",
                     [id |-> Some(eTasks[i].id), status |-> newStatus, stamp |-> now,
                      email |-> userEmail]))
  /\ UNCHANGED <<empVars, mounted>>
  /\ EmpFrame

\* handleStatusChange after await updateTaskStatus: the reload, or the catch
StatusChangeReloads(r) ==
  /\ scope = "employee" /\ r.site = "updateTaskStatus" /\ r.phase \in {"ok", "err"}
  /\ IF r.phase = "ok"
       THEN /\ net' = Replace(r, Req("getTasksForEmployee", "statusChange",
                                     [email |-> r.arg.email]))
            /\ UNCHANGED eTasksError
       ELSE /\ eTasksError' = "Could not update task status"
            /\ net' = Take(r)
  /\ UNCHANGED <<userEmail, employee, eLoading, eError, eTasks, eTasksLoading, mounted>>
  /\ EmpFrame

\* handleStatusChange after await getTasksForEmployee: setTasks, or the catch
StatusChangeResumes(r) ==
  /\ scope = "employee" /\ r.site = "getTasksForEmployee" /\ r.from = "statusChange"
  /\ r.phase \in {"ok", "err"}
  /\ IF r.phase = "ok"
       THEN /\ eTasks' = r.data
            /\ UNCHANGED eTasksError
       ELSE /\ eTasksError' = "Could not update task status"
            /\ UNCHANGED eTasks
  /\ net' = Take(r)
  /\ UNCHANGED <<userEmail, employee, eLoading, eError, eTasksLoading, mounted>>
  /\ EmpFrame

EmpStart ==
  /\ scope = "employee"
  /\ dbEmployees = {Ann}
  /\ dbTasks = {StoredTask(1, "a@x.com", 0), StoredTask(2, "b@x.com", 1)}
  /\ nextId = 3 /\ now = MaxClock
  /\ net = EmptyBag /\ last = NoCall /\ ret = <<>> /\ deleted = {} /\ mounted = FALSE
  /\ AppInit /\ ManagerInit
  /\ userEmail \in SessionEmails
  /\ employee = Null /\ eLoading = TRUE /\ eError = ""
  /\ eTasks = <<>> /\ eTasksLoading = TRUE /\ eTasksError = ""

EmpNext ==
  \/ EmpMount
  \/ \E e \in SessionEmails : UserEmailChanges(e)
  \/ \E i \in 1..MaxRows, st \in Statuses : handleStatusChange(i, st)
  \/ \E r \in Pending : scope = "employee" /\ ServerFails(r)
  \/ \E r \in Pending : ServerSelectEmployeeByEmail(r)
  \/ \E r \in Pending : ServerGetTasksForEmployee(r)
  \/ \E r \in Pending : ServerUpdateTaskStatus(r)
  \/ \E r \in Pending : LoadEmployeeResumes(r)
  \/ \E r \in Pending : LoadEmployeeTasksResumes(r)
  \/ \E r \in Pending : StatusChangeReloads(r)
  \/ \E r \in Pending : StatusChangeResumes(r)

SpecEmp == EmpStart /\ [][EmpNext]_vars

----------------------------------------------------------------------------
(* Claims about the Task Access Layer (specification SpecTasks)            *)

Rows(list) == {list[i] : i \in DOMAIN list}

\* A step of SpecTasks that is a call: every step but Tick is one, and it
\* leaves in last the call it made.
IsCall == now' = now

\* C5: getTasksForEmployee(e) returns exactly the tasks whose employee_email
\* is e, whatever else the store holds, ordered by created_at descending.
C5_EmployeeTasksExact ==
  (last.fn = "getTasksForEmployee" /\ last.ok) =>
     /\ Rows(ret) = {TaskColumns(row) : row \in {r \in dbTasks : r.employee_email = last.email}}
     /\ \A i, j \in DOMAIN ret : i # j => ret[i].id # ret[j].id
     /\ \A i, j \in DOMAIN ret : i < j => ret[i].created_at >= ret[j].created_at

\* C5 witness: a successful call that returned a task while the store also
\* holds a task of somebody else.
C5_Witness ==
  /\ last.fn = "getTasksForEmployee" /\ last.ok
  /\ Len(ret) >= 1
  /\ \E row \in dbTasks : row.employee_email # last.email

\* C6: updateTaskStatus(id, 'done') sets status and a non-null completed_at;
\* updateTaskStatus(id, s) for another s sets status and keeps completed_at;
\* every other field of the task and every other row stay as they were.
C6_StatusUpdateFrame ==
  [][ (IsCall /\ last'.fn = "updateTaskStatus" /\ last'.ok) =>
        /\ {row.id : row \in dbTasks'} = {row.id : row \in dbTasks}
        /\ \A row \in dbTasks : \A new \in dbTasks' :
              new.id = row.id =>
                IF row.id = last'.id[1]
                  THEN /\ new.status = last'.status
                       /\ last'.status = "done" => new.completed_at # Null
                       /\ last'.status # "done" => new.completed_at = row.completed_at
                       /\ TaskColumns(new) = [TaskColumns(row) EXCEPT !.status = last'.status]
                  ELSE new = row ]_vars

\* C6 witness: a task set back to 'todo' that keeps the completed_at it got
\* when it was done, beside another task.
C6_Witness ==
  /\ last.fn = "updateTaskStatus" /\ last.ok /\ last.status = "todo"
  /\ \E row \in dbTasks :
        row.id = last.id[1] /\ row.status = "todo" /\ row.completed_at # Null
  /\ Cardinality(dbTasks) >= 2

\* C7 (as claimed): an operation sets completed_at to the current time exactly
\* when it leaves the task it writes with status 'done'.
C7_CompletedAtExactlyOnDone ==
  [][ IsCall =>
        \A new \in dbTasks' :
          LET old     == {row \in dbTasks : row.id = new.id}
              before  == IF old = {} THEN Null ELSE (CHOOSE row \in old : TRUE).completed_at
              written == /\ last'.ok /\ last'.id = Some(new.id)
                         /\ last'.fn \in {"createTask", "updateTask", "updateTaskStatus"}
          IN  IF written /\ new.status = "done"
                THEN new.completed_at = Some(now)
                ELSE new.completed_at = before ]_vars

\* The due_date the claim expects stored for a submitted due_date.
Normalized(d) == IF d = Null \/ d = Some("") THEN Null ELSE d

\* C15: a successful createTask / updateTask stores due_date as null when the
\* submitted due_date is absent or the empty string and as submitted otherwise;
\* updateTask writes title, description, status, due_date and employee_email
\* of the row with the given id, keeps its other fields, and keeps every other
\* row; createTask keeps every stored row.
C15_DueDateNormalized ==
  [][ (IsCall /\ last'.ok /\ last'.fn \in {"createTask", "updateTask"}) =>
        LET t == last'.task IN
          /\ \A new \in dbTasks' :
               IF new.id = last'.id[1]
                 THEN /\ new.due_date = Normalized(t.due_date)
                      /\ new.title = t.title /\ new.description = t.description
                      /\ new.status = t.status /\ new.employee_email = t.employee_email
                      /\ last'.fn = "updateTask" =>
                           \E old \in dbTasks :
                             /\ old.id = new.id /\ old.created_at = new.created_at
                             /\ old.completed_at = new.completed_at
                 ELSE new \in dbTasks
          /\ \A old \in dbTasks : \E new \in dbTasks' : new.id = old.id
          /\ last'.fn = "createTask" => \E new \in dbTasks' : new.id = last'.id[1] ]_vars

\* C15 witness: an updateTask submitted with an empty due_date has cleared the
\* date of its row, beside a task created with a date that is stored as given.
C15_Witness ==
  /\ last.ok /\ last.fn = "updateTask" /\ last.task.due_date = Some("")
  /\ \E row \in dbTasks : row.id = last.id[1] /\ row.due_date = Null
  /\ \E row \in dbTasks : row.id # last.id[1] /\ row.due_date # Null

\* A successful list fetch is the call made last.
Fetched == last.ok /\ last.fn \in {"getTasksForManager", "getTasksForEmployee"}

\* C12: once deleteTask(id) has succeeded, no list fetch issued afterwards
\* returns a task with that id (a successful deleteTask(id) leaves no row with
\* that id, and a row it removed is in no later result), and every other task
\* stored before the delete is still stored and returned by getTasksForManager.
C12_DeletedTaskGone ==
  /\ [](Fetched => \A i \in DOMAIN ret : ret[i].id \notin deleted)
  /\ [](last.ok /\ last.fn = "getTasksForManager" =>
          Rows(ret) = {TaskColumns(row) : row \in dbTasks})
  /\ [][ (IsCall /\ last'.fn = "deleteTask" /\ last'.ok) =>
           /\ \A row \in dbTasks' : row.id # last'.id[1]
           /\ \A row \in dbTasks : row.id # last'.id[1] => row \in dbTasks' ]_vars

\* C12 witness: a fetch after a delete returns a task that was stored before
\* the deleted one.
C12_Witness ==
  /\ last.ok /\ last.fn = "getTasksForManager"
  /\ \E d \in deleted : \E i \in DOMAIN ret : ret[i].id < d

----------------------------------------------------------------------------
(* Claims about App (specification SpecApp)                                *)

\* The continuation that awaited request r runs in this step: its reply leaves
\* the requests in flight.
Handled(r) == r.phase \in {"ok", "err"} /\ CopiesIn(r, net') < CopiesIn(r, net)

\* The role of the profile linked to a user id ("" when there is none).
LinkedRole(uid) ==
  IF \E row \in Profiles : row.id = uid
    THEN (CHOOSE row \in Profiles : row.id = uid).role
    ELSE ""

\* C1 (as claimed, first half): with loading false and a session, the Manager
\* Dashboard is rendered only if the profile linked to the session's user id
\* has role 'manager'.
C1_ManagerOnlyForLinkedManager ==
  (~loading /\ session # Null /\ View = "manager") => LinkedRole(session[1].uid) = "manager"

\* C2 (as claimed): the result of a profile fetch is applied to profile only if
\* the session it was issued for is still the current session; a late result
\* leaves profile alone.
C2_StaleProfileDiscarded ==
  [][ \A r \in Pending :
        (r.site = "fetchProfile" /\ Handled(r)
           /\ (session = Null \/ session[1].uid # r.arg.uid))
        => profile' = profile ]_vars

\* An auth-state notification is delivered in this step: the callback sends a
\* profile fetch of its own, or (null session) sends nothing.
Notified ==
  /\ subscribed = "active" /\ subscribed' = subscribed
  /\ \/ \E u \in Users : net' = Send(fetchProfile("notify", u))
     \/ net' = net

\* C3 (as claimed): handling a notification discards the profile held before:
\* null for a null session, and never the previous session's profile beside a
\* new session.
C3_NotificationDiscardsProfile ==
  [][ Notified =>
        /\ session' = Null => profile' = Null
        /\ (session' # Null /\ profile' # Null) => profile'[1].id = session'[1].uid ]_vars

\* C4: a handleLogin whose signInWithPassword reports an error leaves session
\* as it was (null), sets a non-empty login error, issues no profile fetch and
\* renders no dashboard.
C4_FailedLogin ==
  [][ \A r \in Pending :
        (Live /\ r.site = "signIn" /\ r.phase = "err" /\ Handled(r)) =>
          /\ session' = session
          /\ error' # ""
          /\ net' = Take(r)
          /\ session = Null => View' \in {"login", "loading"} ]_vars

\* C4 witness: the login form shows an error and there is no session.
C4_Witness ==
  /\ View = "login" /\ error # "" /\ session = Null /\ net = EmptyBag

\* C9 (as claimed): whenever a remote call of App reports a failure, the code
\* that awaited it leaves a non-empty error message in App's state.
C9_EveryFailureShown ==
  [][ \A r \in Pending :
        (Live /\ r.phase = "err" /\ Handled(r)
           /\ r.site \in {"getSession", "fetchProfile", "signIn", "signOut"})
        => error' # "" ]_vars

\* C8 (as claimed): a remote operation that fails leaves the local data copies
\* as they were: the session and profile of App, the lists and open edit forms
\* of the Manager Dashboard, the record and list of the Employee Dashboard.
C8_FailureLeavesLocalData ==
  [][ \A r \in Pending :
        (r.phase = "err" /\ Handled(r)) =>
          UNCHANGED <<session, profile, employees, tasks, editingEmployee, editingTask,
                      employee, eTasks>> ]_vars

\* C19: when a profile fetch fails, its continuation leaves profile null and
\* keeps the session; with a session and the initial load over, the Employee
\* Dashboard is what App renders (and it is over after the fetch of the
\* initial load or of a login).
C19_FetchFailureFallsBack ==
  [][ \A r \in Pending :
        (Live /\ r.site = "fetchProfile" /\ r.phase = "err" /\ Handled(r)) =>
          /\ profile' = Null
          /\ session' = session
          /\ (session # Null /\ ~loading') => View' = "employee"
          /\ (session # Null /\ r.from \in {"init", "login"}) => View' = "employee" ]_vars

\* C19 witness: the session of a user whose profile says 'manager', nothing in
\* flight, no profile: the Employee Dashboard is rendered.
C19_Witness ==
  /\ Live /\ session # Null /\ LinkedRole(session[1].uid) = "manager"
  /\ profile = Null /\ net = EmptyBag /\ View = "employee"

\* C21: the subscription is acquired by the mount and released by the unmount
\* for good: once unsubscribed it stays unsubscribed, and no step taken
\* afterwards (no notification, no late reply) changes session or profile.
C21_SubscriptionReleased ==
  [][ /\ subscribed' # subscribed =>
            \/ subscribed = "none" /\ subscribed' = "active"
            \/ subscribed = "active" /\ subscribed' = "unsubscribed"
      /\ subscribed = "unsubscribed" =>
            /\ subscribed' = "unsubscribed"
            /\ session' = session /\ profile' = profile ]_vars

\* C21 witness: App was unmounted with a session and its profile fetch still
\* in flight; the reply has come and been handled, and profile is untouched.
C21_Witness ==
  /\ subscribed = "unsubscribed" /\ session # Null /\ profile = Null
  /\ loading /\ net = EmptyBag

\* C23: App starts in the loading state and is still in it when it mounts;
\* while loading, neither the login form nor a dashboard is rendered; loading
\* never goes back to true; and a mounted App whose remote calls are answered
\* leaves the loading state (unless it is unmounted first).
C23_LoadingEnds ==
  /\ loading = TRUE
  /\ [](loading => View = "loading")
  /\ [][ /\ (subscribed = "none" /\ subscribed' = "active") => loading'
         /\ ~loading => ~loading' ]_vars
  /\ (subscribed = "active") ~> (~loading \/ subscribed = "unsubscribed")

\* C23 witness: the initial session was present and its profile fetch failed;
\* loading is over, with the session and without a profile.
C23_Witness ==
  /\ Live /\ ~loading /\ session = Some(SessionOf("u2")) /\ profile = Null
  /\ net = EmptyBag /\ error = ""

\* C25 (as claimed): in every state of App, a null session goes with a null
\* profile, and a profile held beside a session is the profile of the
\* session's user.
C25_ProfileFollowsSession ==
  /\ session = Null => profile = Null
  /\ (session # Null /\ profile # Null) => profile[1].id = session[1].uid

----------------------------------------------------------------------------
(* Claims about ManagerDashboard (specification SpecMgr)                   *)

\* The rows whose full_name, email, role and status are those of v.
Matching(rows, v) ==
  {row \in rows : /\ row.full_name = v.full_name /\ row.email = v.email
                  /\ row.role = v.role /\ row.status = v.status}

\* The store executes the update of request r in this step, and accepts it.
UpdateExecuted(r) ==
  /\ r.site = "updateEmployee" /\ r.phase = "sent"
  /\ net' = Replace(r, ReplyOk(r, <<>>))

\* C14: an update of saveEmployee that the store accepts changes full_name,
\* email, role and status of the row with the submitted id and nothing else:
\* the same ids are stored, every other row is as it was; and applying the
\* same update once more leaves the table as the first left it.
C14_UpdateOnlyTarget ==
  [][ \A r \in Pending :
        UpdateExecuted(r) =>
          /\ \A row \in dbEmployees :
               IF row.id = r.arg.id[1]
                 THEN [row EXCEPT !.full_name = r.arg.full_name, !.email = r.arg.email,
                                  !.role = r.arg.role, !.status = r.arg.status]
                        \in dbEmployees'
                 ELSE row \in dbEmployees'
          /\ Cardinality(dbEmployees') = Cardinality(dbEmployees)
          /\ UpdateEmployee(dbEmployees', r.arg).ok
          /\ UpdateEmployee(dbEmployees', r.arg).rows = dbEmployees' ]_vars

\* C14 witness: the same update of Ann's row was submitted twice and executed
\* twice; the row holds the submitted values and the other row is untouched.
C14_Witness ==
  /\ \E r \in Pending :
        /\ r.site = "updateEmployee" /\ r.phase = "ok" /\ CopiesIn(r, net) = 2
        /\ \E row \in Matching(dbEmployees, r.arg) : row.id = 1 /\ row.full_name = "Bob"
  /\ Cy \in dbEmployees

\* The store executes the insert of request r in this step: r is answered, and
\* not by a failure of the backend.
InsertExecuted(r) ==
  /\ r.site = "insertEmployee" /\ r.phase = "sent"
  /\ CopiesIn(r, net') < CopiesIn(r, net)
  /\ \A m \in AuthMessages : net' # Replace(r, ReplyErr(r, m))

\* C13 (as claimed): when the store holds no employee matching the values
\* submitted in the Add Employee form, executing the insert of saveEmployee
\* leaves exactly one row with those values, which a reload of the list
\* returns exactly once.
C13_CreateThenReload ==
  [][ \A r \in Pending :
        (InsertExecuted(r) /\ Matching(dbEmployees, r.arg) = {}) =>
          /\ Cardinality(Matching(dbEmployees', r.arg)) = 1
          /\ \A rows \in SelectEmployees(dbEmployees') :
               Cardinality({i \in DOMAIN rows : Matching({rows[i]}, r.arg) # {}}) = 1 ]_vars

SaveSites == {"createTask", "updateTask", "insertEmployee", "updateEmployee"}

\* A form is submitted in this step: q is a mutation it sends.
Submitted(q) ==
  q.phase = "sent" /\ q.site \in SaveSites /\ CopiesIn(q, net') > CopiesIn(q, net)

\* C10: a submit of the task or employee form issues exactly one mutation, for
\* the record of the open form: an update by id when the record has an id, an
\* insert otherwise; when the mutation succeeds its continuation closes the
\* form and issues the reload of the list.
C10_SubmitIssuesOneMutation ==
  [][ /\ \A q \in BagToSet(net') :
           Submitted(q) =>
             /\ net' = Send(q)
             /\ q.site \in {"updateTask", "updateEmployee"} <=> TruthyId(q.arg.id)
             /\ q.site \in {"createTask", "updateTask"} =>
                  editingTask # Null /\ q.arg.id = editingTask[1].id
             /\ q.site \in {"insertEmployee", "updateEmployee"} =>
                  editingEmployee # Null /\ q.arg.id = editingEmployee[1].id
      /\ \A r \in Pending :
           (r.phase = "ok" /\ r.site \in SaveSites /\ Handled(r)) =>
             IF r.site \in {"createTask", "updateTask"}
               THEN editingTask' = Null /\ net' = Replace(r, loadTasks("saveTask"))
               ELSE editingEmployee' = Null
                    /\ net' = Replace(r, loadEmployees("saveEmployee")) ]_vars

\* C10 witness: an update submitted from the edit form of a stored task has
\* succeeded; the form is closed and the reload of the list is in flight.
C10_Witness ==
  /\ editingTask = Null
  /\ loadTasks("saveTask") \in Pending
  /\ \E i \in DOMAIN tasks : \E row \in dbTasks :
        row.id = tasks[i].id /\ tasks[i].title = "T1" /\ row.title = "T2"

\* A deleteTask request q is sent in this step.
DeleteSent(q) ==
  q.site = "deleteTask" /\ q.phase = "sent" /\ CopiesIn(q, net') > CopiesIn(q, net)

\* C11: handleDeleteTask sends deleteTask only in a step whose prompt was
\* answered positively; a declined prompt sends nothing and leaves tasks,
\* tasksError, tasksLoading and editingTask as they were; the continuation of a
\* successful delete issues the reload of the task list.
C11_DeleteOnlyWhenConfirmed ==
  [][ /\ \A q \in BagToSet(net') :
           DeleteSent(q) => confirmDelete' = Some(TRUE) /\ net' = Send(q)
      /\ (confirmDelete' = Some(FALSE) /\ confirmDelete' # confirmDelete) =>
           /\ net' = net
           /\ UNCHANGED <<tasks, tasksError, tasksLoading, editingTask>>
      /\ \A r \in Pending :
           (r.site = "deleteTask" /\ r.phase = "ok" /\ Handled(r)) =>
             net' = Replace(r, loadTasks("deleteTask")) ]_vars

\* C11 witness: the prompt for a listed task was declined after an earlier
\* delete went through; the declined task is still stored and no delete is in
\* flight.
C11_Witness ==
  /\ confirmDelete = Some(FALSE)
  /\ Len(tasks) >= 1
  /\ \A i \in DOMAIN tasks : \E row \in dbTasks : row.id = tasks[i].id
  /\ nextId > Cardinality(dbTasks) + 1
  /\ \A q \in Pending : q.site # "deleteTask"

\* The call sites of the two sections of the Manager Dashboard.
EmployeeSites == {"loadEmployees", "insertEmployee", "updateEmployee"}
TaskSites     == {"getTasksForManager", "createTask", "updateTask", "deleteTask"}

\* A step of an action of a section: it sends, or resumes after, a call of
\* one of the section's sites (or is the store's answer to one).
StepOf(sites) ==
  \E q \in BagToSet(net) \cup BagToSet(net') :
     q.site \in sites /\ CopiesIn(q, net') # CopiesIn(q, net)

\* C16: no employees-side action (loadEmployees, saveEmployee) changes
\* tasksError, tasks or editingTask, and no tasks-side action (loadTasks,
\* saveTask, handleDeleteTask) changes the employees error, employees or
\* editingEmployee.
C16_SectionsIndependent ==
  [][ /\ (StepOf(EmployeeSites) /\ ~StepOf(TaskSites)) =>
           UNCHANGED <<tasksError, tasks, editingTask>>
      /\ (StepOf(TaskSites) /\ ~StepOf(EmployeeSites)) =>
           UNCHANGED <<mError, employees, editingEmployee>> ]_vars

\* C16 witness: a failed employee update beside a failed task load: each
\* section shows its own message, and the employee form is still open.
C16_Witness ==
  /\ mError = "Could not update employee"
  /\ tasksError = "Could not load tasks"
  /\ editingEmployee # Null /\ editingTask = Null /\ Len(employees) = 2

\* The mutations a form submit or a status change issues.
MutationSites == SaveSites \cup {"updateTaskStatus"}

\* The mutations issued by the control that issued q (the form of the same
\* record, the status select of the same task) and not yet resumed from.
OutstandingOf(q) ==
  {p \in Pending : p.site \in MutationSites /\ p.from = q.from /\ p.arg.id = q.arg.id}

\* C20 (as claimed): at most one mutation per form (or status select) is in
\* flight at any time.
C20_NoDuplicateSubmission ==
  \A q \in Pending :
     q.site \in MutationSites =>
       /\ Cardinality(OutstandingOf(q)) = 1
       /\ CopiesIn(q, net) = 1

\* The Add Task button is pressed in this step: a form without an id opens.
OpensCreateTask ==
  editingTask' # editingTask /\ editingTask' # Null /\ editingTask'[1].id = Null

\* C22: startCreateTask with no employee listed opens the task form with an
\* empty employee_email; a submit of that form while no employee is listed
\* sends exactly one createTask with an empty assignee; and a reply to a
\* saveTask request, whatever it is, is taken by saveTask's continuation (a
\* failure ends in the catch, with the message and the form kept).
C22_EmptyAssigneeTolerated ==
  /\ [](\A r \in Pending :
          (InManager /\ r.from = "saveTask" /\ r.site \in {"createTask", "updateTask"}
             /\ r.phase \in {"ok", "err"}) => ENABLED SaveTaskResumes(r))
  /\ [][ /\ (employees = <<>> /\ OpensCreateTask) => editingTask'[1].employee_email = ""
         /\ \A q \in BagToSet(net') :
              (Submitted(q) /\ employees = <<>> /\ editingTask # Null
                 /\ editingTask[1].id = Null /\ editingTask[1].employee_email = "")
              => q.site = "createTask" /\ q.arg.employee_email = "" /\ net' = Send(q)
         /\ \A r \in Pending :
              (r.site = "createTask" /\ r.from = "saveTask" /\ r.phase = "err" /\ Handled(r))
              => tasksError' = "Could not save task" /\ editingTask' = editingTask ]_vars

\* C22 witness: a task created from the form opened before any employee was
\* listed is stored with an empty assignee, and the reloaded list shows it.
C22_Witness ==
  /\ employees = <<>> /\ editingTask = Null /\ net = SetToBag({loadEmployees("mount")})
  /\ Len(tasks) = 1 /\ tasks[1].employee_email = ""
  /\ \E row \in dbTasks : row.employee_email = ""

\* C24 (as claimed): once every request has completed, with the last
\* operation on a list having succeeded, the local list is what the store
\* returns for that view now: no reply of an earlier load has overwritten the
\* result of the reload that followed a mutation.
C24_ListsMatchStoreWhenQuiet ==
  (mounted /\ net = EmptyBag) =>
     /\ (scope = "managerTasks" /\ tasksError = "") => tasks \in getTasksForManager(dbTasks)
     /\ (scope = "managerEmployees" /\ mError = "") => employees \in SelectEmployees(dbEmployees)
     /\ (scope = "employee" /\ eTasksError = "") =>
           eTasks \in getTasksForEmployee(dbTasks, userEmail)

\* C27: when the mutation of saveTask or saveEmployee reports an error, its
\* continuation leaves editingTask and editingEmployee as they are (an open
\* form stays open), sets the error message of its section to a non-empty
\* string and sends no request: no list is fetched again.
C27_FailedSaveKeepsForm ==
  [][ \A r \in Pending :
        (r.phase = "err" /\ r.site \in SaveSites /\ Handled(r)) =>
          /\ editingTask' = editingTask /\ editingEmployee' = editingEmployee
          /\ IF r.site \in {"createTask", "updateTask"}
               THEN tasksError' # "" /\ mError' = mError
               ELSE mError' # "" /\ tasksError' = tasksError
          /\ net' = Take(r)
          /\ tasks' = tasks /\ employees' = employees ]_vars

\* C27 witness: the update submitted from the edit form of a listed task has
\* failed: the form is still open for that task, the message is shown, nothing
\* is in flight and the store is as the list shows it.
C27_Witness ==
  /\ scope = "managerTasks" /\ net = EmptyBag /\ tasksError = "Could not save task"
  /\ editingTask # Null /\ editingTask[1].id # Null
  /\ tasks \in getTasksForManager(dbTasks)

----------------------------------------------------------------------------
(* Claims about EmployeeDashboard (specification SpecEmp)                  *)

\* The profile card of the Employee Dashboard is rendered.
CardShown == ~eLoading /\ employee # Null

\* r is the answer to the most recent self-lookup, made for the current email.
MostRecentLookup(r) ==
  /\ r.site = "loadEmployee" /\ r.arg.email = userEmail
  /\ \A q \in Pending : q.site = "loadEmployee" => q = r
  /\ CopiesIn(r, net) = 1

\* C17 (as claimed): when the most recent self-lookup for the current email
\* has failed, the inline error is shown and no profile card is rendered, also
\* after the session email has changed.
C17_LookupErrorInsteadOfProfile ==
  [][ \A r \in Pending :
        (MostRecentLookup(r) /\ r.phase = "err" /\ Handled(r)) =>
          (eError' # "" /\ ~CardShown') ]_vars

\* The remote operations the claim allows the Employee Dashboard.
EmployeeDashboardSites == {"loadEmployee", "getTasksForEmployee", "updateTaskStatus"}

\* C18: the Employee Dashboard issues only the employee self-lookup,
\* getTasksForEmployee and updateTaskStatus: no other request is ever in
\* flight, the employees table is never written, no task is added or removed,
\* and a stored task changes in status and completed_at only.
C18_EmployeeDashboardReadOnly ==
  /\ [](\A q \in Pending : q.site \in EmployeeDashboardSites)
  /\ [][ /\ dbEmployees' = dbEmployees
         /\ \A new \in dbTasks' : \E old \in dbTasks :
               new = [old EXCEPT !.status = new.status, !.completed_at = new.completed_at]
         /\ Cardinality(dbTasks') = Cardinality(dbTasks) ]_vars

\* C18 witness: a status change has gone through (the task is done in the
\* store) and its reload is in flight.
C18_Witness ==
  /\ \E row \in dbTasks : row.status = "done" /\ row.completed_at # Null
  /\ \E q \in Pending : q.site = "getTasksForEmployee" /\ q.from = "statusChange"

\* C26 (as claimed, and only for the states that show no error message): with
\* the dashboard mounted and nothing in flight, every task of the local list
\* is assigned to the current userEmail and the employee card shows the record
\* of the current userEmail.
C26_LocalDataOfCurrentUser ==
  (mounted /\ net = EmptyBag /\ eError = "" /\ eTasksError = "") =>
     /\ \A i \in DOMAIN eTasks : eTasks[i].employee_email = userEmail
     /\ CardShown => employee[1].email = userEmail

\* C28 (as claimed): when the reload of a status change succeeds (its
\* updateTaskStatus has succeeded before it), tasksError is empty afterwards;
\* and tasksError becomes 'Could not update task status' only in the
\* continuation of an updateTaskStatus that failed.
C28_TasksErrorTracksLastOperation ==
  [][ /\ \A r \in Pending :
           (r.site = "getTasksForEmployee" /\ r.from = "statusChange"
              /\ r.phase = "ok" /\ Handled(r)) => eTasksError' = ""
      /\ (eTasksError' = "Could not update task status" /\ eTasksError' # eTasksError) =>
           \E r \in Pending :
              r.site = "updateTaskStatus" /\ r.phase = "err" /\ Handled(r) ]_vars

====
